---- MODULE Spec2Model ----
(***************************************************************************)
(* ParamparaSmritiAI backend (src/backend/server.py) as a state machine.   *)
(*                                                                         *)
(* Every request handler is an asyncio coroutine: it runs without          *)
(* interruption between two awaits, and other requests run while it is     *)
(* suspended.  One action of the model is one such uninterrupted stretch:  *)
(* the completion of the awaited store, provider or file operation         *)
(* together with the handler code that follows it up to the next await.    *)
(*                                                                         *)
(* The document store, the LLM provider and the embedding model are the    *)
(* program's external collaborators.  A collection is the sequence of the  *)
(* records inserted into it, in insertion order; find_one and update_one   *)
(* act on the first match; one store operation is one atomic step that     *)
(* either takes effect or raises.  Records are functions from the field    *)
(* names that are present to their values.  A Python Optional is a         *)
(* sequence of length 0 (None) or 1.  A text is a sequence of tokens.      *)
(***************************************************************************)
EXTENDS Integers, Sequences, FiniteSets, TLC

VARIABLES
    cultural_documents,  \* db.cultural_documents
    folk_songs,          \* db.folk_songs
    stories,             \* db.stories
    user_progress,       \* db.user_progress
    uploads,             \* files present in <tempdir>/parampara_uploads
    EMERGENT_LLM_KEY,    \* whether the environment sets the provider key
    embedding_model,     \* "loaded", or "None" after the ImportError
    task,                \* per request slot: the handler and where it stands
    awards,              \* history: the badge awards the store has applied
    uploaded,            \* history: the document_ids /ocr/upload has returned
    observed             \* history: per user, the most points and badges stored

vars == <<cultural_documents, folk_songs, stories, user_progress, uploads,
          EMERGENT_LLM_KEY, embedding_model, task, awards, uploaded,
          observed>>

stores == <<cultural_documents, folk_songs, stories, user_progress>>

env == <<EMERGENT_LLM_KEY, embedding_model>>

history == <<awards, uploaded, observed>>

(***************************************************************************)
(* Bounds of the model.                                                    *)
(***************************************************************************)
NumTasks == 2

MaxAwards == 2

Tasks == 1..NumTasks

Users == {"u1"}

Badges == {"Cultural Explorer", "Sanskrit Scholar"}

StoreOutcomes == {"ok", "raises"}

(***************************************************************************)
(* Helpers.                                                                *)
(***************************************************************************)
Min(S) == CHOOSE x \in S : \A y \in S : x <= y

Max(S) == CHOOSE x \in S : \A y \in S : x >= y

Range(s) == {s[i] : i \in DOMAIN s}

\* Indices of the records of coll whose field equals val.
Matching(coll, fld, val) ==
    {i \in DOMAIN coll : fld \in DOMAIN coll[i] /\ coll[i][fld] = val}

\* A find_one that answers with the newest match.
find_one_newest(coll, fld, val) ==
    IF Matching(coll, fld, val) = {} THEN <<>>
    ELSE <<coll[Max(Matching(coll, fld, val))]>>

\* collection.find_one({fld: val}): None or the first match.
find_one(coll, fld, val) ==
    IF Matching(coll, fld, val) = {} THEN <<>>
    ELSE <<coll[Min(Matching(coll, fld, val))]>>

\* collection.insert_one(doc)
insert_one(coll, doc) == Append(coll, doc)

\* uuid4 is a value no earlier call returned.  The code compares an id only
\* with the ids of one collection (and a staged file's name with nothing), so
\* the model draws each value from the numbers unused in its own collection:
\* those of the records of the collection and those the suspended requests
\* of the handler op have drawn for it.
IdsOf(coll) == {coll[i].id : i \in {j \in DOMAIN coll : "id" \in DOMAIN coll[j]}}

\* Optional[T]: None, or a value.
None == <<>>

Some(x) == <<x>>

LiveIds(ids, op) ==
    ids \cup UNION {task[p].ids : p \in {q \in Tasks : task[q].op = op}}

\* A uuid4 that may repeat a value a suspended request has drawn.
uuid4_unaware_of_pending(ids, op) == Min((1..(Cardinality(ids) + 1)) \ ids)

uuid4(ids, op) ==
    Min((1..(Cardinality(LiveIds(ids, op)) + 1)) \ LiveIds(ids, op))

utcnow == "utcnow"

NoFields == <<>>

\* What a request has asked of the provider so far: LlmChat sessions
\* constructed and messages sent.
NoCalls == [sessions |-> 0, sent |-> 0]

IdleTask ==
    [op |-> "idle", pc |-> "idle", ids |-> {}, arg |-> NoFields,
     loc |-> NoFields, llm |-> NoCalls, resp |-> NoFields]

Free(p) == task[p].pc \in {"idle", "done"}

\* A handler suspended at the await named pc, holding the locals loc.
Suspended(op, pc, ids, arg, loc, llm) ==
    [op |-> op, pc |-> pc, ids |-> ids, arg |-> arg, loc |-> loc,
     llm |-> llm, resp |-> NoFields]

\* A handler that has returned resp (or raised it).
Returned(op, ids, arg, loc, llm, resp) ==
    [op |-> op, pc |-> "done", ids |-> ids, arg |-> arg, loc |-> loc,
     llm |-> llm, resp |-> resp]

\* What the framework answers for an exception no handler catches.
InternalServerError == [status |-> 500, detail |-> "Internal Server Error"]

HTTPException(code, msg) == [status |-> code, detail |-> msg]

OK(body) == [status |-> 200, body |-> body]

(***************************************************************************)
(* Gamification ledger.                                                    *)
(***************************************************************************)
BadgePoints == 10

\* A UserProgress whose counter defaults are not zero.
UserProgress_welcome_points(id, user_id) ==
    [id |-> id, created_at |-> utcnow, updated_at |-> utcnow,
     user_id |-> user_id, badges |-> <<>>, points |-> BadgePoints,
     documents_explored |-> <<>>, translations_contributed |-> 0,
     stories_completed |-> 0]

UserProgress(id, user_id) ==
    [id |-> id, created_at |-> utcnow, updated_at |-> utcnow,
     user_id |-> user_id, badges |-> <<>>, points |-> 0,
     documents_explored |-> <<>>, translations_contributed |-> 0,
     stories_completed |-> 0]

\* $addToSet
addToSet(list, v) == IF v \in Range(list) THEN list ELSE Append(list, v)

\* An award that grants the points only with a badge the user lacks.
award_update_idempotent(doc, badge_name) ==
    IF badge_name \in Range(doc.badges) THEN doc
    ELSE [doc EXCEPT !.badges = Append(@, badge_name),
                     !.points = @ + BadgePoints]

\* {"$addToSet": {"badges": badge_name}, "$inc": {"points": 10}}
award_update(doc, badge_name) ==
    [doc EXCEPT !.badges = addToSet(@, badge_name), !.points = @ + BadgePoints]

\* An update that sets the points ($set) where the code increments ($inc).
update_one_upsert_set_points(coll, user_id, badge_name) ==
    IF Matching(coll, "user_id", user_id) = {}
    THEN Append(coll, [user_id |-> user_id, badges |-> <<badge_name>>,
                       points |-> BadgePoints])
    ELSE [coll EXCEPT ![Min(Matching(coll, "user_id", user_id))] =
              [@ EXCEPT !.badges = addToSet(@, badge_name),
                        !.points = BadgePoints]]

\* update_one({"user_id": user_id}, <award_update>, upsert=True)
update_one_upsert(coll, user_id, badge_name) ==
    IF Matching(coll, "user_id", user_id) = {}
    THEN Append(coll, [user_id |-> user_id, badges |-> <<badge_name>>,
                       points |-> BadgePoints])
    ELSE [coll EXCEPT ![Min(Matching(coll, "user_id", user_id))] =
              award_update(@, badge_name)]

\* get_user_progress up to its second await: find_one, and on a miss the new
\* record is built and its insert issued.
get_user_progress_find(p, user_id) ==
    /\ Free(p)
    /\ \E out \in StoreOutcomes :
        LET arg == [user_id |-> user_id]
            progress == find_one(user_progress, "user_id", user_id)
            new_id == uuid4(IdsOf(user_progress), "get_user_progress")
        IN  task' = [task EXCEPT ![p] =
                IF out = "raises"
                THEN Returned("get_user_progress", {}, arg, NoFields,
                              NoCalls, InternalServerError)
                ELSE IF progress = <<>>
                THEN Suspended("get_user_progress", "insert_one", {new_id}, arg,
                               [progress |-> progress,
                                new_progress |-> UserProgress(new_id, user_id),
                                floor |-> observed[user_id].stored],
                               NoCalls)
                ELSE Returned("get_user_progress", {}, arg,
                              [progress |-> progress], NoCalls,
                              OK(progress[1]))]
    /\ UNCHANGED <<stores, uploads, env, awards, uploaded>>

\* get_user_progress from the insert to the return.
get_user_progress_insert(p) ==
    /\ task[p].op = "get_user_progress"
    /\ task[p].pc = "insert_one"
    /\ \E out \in StoreOutcomes :
        IF out = "raises"
        THEN /\ task' = [task EXCEPT ![p] =
                   Returned(@.op, {}, @.arg, @.loc, NoCalls,
                            InternalServerError)]
             /\ UNCHANGED user_progress
        ELSE /\ user_progress' = insert_one(user_progress, task[p].loc.new_progress)
             /\ task' = [task EXCEPT ![p] =
                   Returned(@.op, {}, @.arg, @.loc, NoCalls,
                            OK(@.loc.new_progress))]
    /\ UNCHANGED <<cultural_documents, folk_songs, stories, uploads, env, awards,
                   uploaded>>

\* award_badge: one update_one, then the fixed answer.
award_badge(p, user_id, badge_name) ==
    /\ Free(p)
    /\ awards[user_id].count < MaxAwards
    /\ \E out \in StoreOutcomes :
        LET arg == [user_id |-> user_id, badge_name |-> badge_name] IN
        IF out = "raises"
        THEN /\ task' = [task EXCEPT ![p] =
                   Returned("award_badge", {}, arg, NoFields, NoCalls,
                            InternalServerError)]
             /\ UNCHANGED <<user_progress, awards>>
        ELSE /\ user_progress' =
                   update_one_upsert(user_progress, user_id, badge_name)
             /\ awards' = [awards EXCEPT
                   ![user_id].count = @ + 1,
                   ![user_id].names = @ \cup {badge_name}]
             /\ task' = [task EXCEPT ![p] =
                   Returned("award_badge", {}, arg, NoFields, NoCalls,
                            OK([message |-> badge_name,
                                points |-> BadgePoints]))]
    /\ UNCHANGED <<cultural_documents, folk_songs, stories, uploads, env, uploaded>>

\* The record the ledger holds for user u (None if it holds none), and the
\* points and badges it shows.
StoredProgress(u) == find_one(user_progress, "user_id", u)

StoredPoints(u) == IF StoredProgress(u) = <<>> THEN 0 ELSE StoredProgress(u)[1].points

StoredBadges(u) == IF StoredProgress(u) = <<>> THEN <<>> ELSE StoredProgress(u)[1].badges

LedgerNext ==
    /\ \E p \in Tasks :
        \/ \E u \in Users : get_user_progress_find(p, u)
        \/ get_user_progress_insert(p)
        \/ \E u \in Users, b \in Badges : award_badge(p, u, b)
    /\ UNCHANGED observed

\* The same endpoints with the requests served one after the other: a request
\* starts only when no other request is suspended.
LedgerSeqNext ==
    /\ \E p \in Tasks :
        /\ \A q \in Tasks \ {p} : Free(q)
        /\ \/ \E u \in Users : get_user_progress_find(p, u)
           \/ get_user_progress_insert(p)
           \/ \E u \in Users, b \in Badges : award_badge(p, u, b)
    /\ UNCHANGED observed

\* The progress fetches of user u that complete with success in the step.
Fetching(u) ==
    {q \in Tasks : /\ task'[q].op = "get_user_progress"
                   /\ task'[q].pc = "done"
                   /\ task'[q].resp.status = 200
                   /\ task'[q].arg.user_id = u
                   /\ task'[q] # task[q]}

\* What a step shows of user u: the most points u's stored record has held,
\* the badges it has shown, and whether a fetch has returned fewer points
\* than the store held when the fetch started (floor, for a fetch that
\* missed) or more than the store has ever held.
Observe(u) ==
    LET fetching == Fetching(u)
        stored == IF user_progress' = user_progress THEN observed[u].stored
                  ELSE Max({observed[u].stored, StoredPoints(u)'})
    IN
    [stored |-> stored,
     badges |->
        IF user_progress' = user_progress THEN observed[u].badges
        ELSE observed[u].badges \cup Range(StoredBadges(u)'),
     fell |->
        \/ observed[u].fell
        \/ \E q \in fetching :
              \/ task'[q].resp.body.points <
                    IF task[q].pc = "insert_one" THEN task[q].loc.floor
                    ELSE observed[u].stored
              \/ task'[q].resp.body.points > stored]

\* The ledger endpoints, NumTasks requests at a time, with the observations
\* of each step recorded.
FetchNext ==
    /\ \E p \in Tasks :
        \/ \E u \in Users : get_user_progress_find(p, u)
        \/ get_user_progress_insert(p)
        \/ \E u \in Users, b \in Badges : award_badge(p, u, b)
    /\ observed' = [u \in Users |-> Observe(u)]

(***************************************************************************)
(* Provider output and json.loads.                                         *)
(*                                                                         *)
(* A text is a sequence of tokens: the JSON punctuation, the double quote, *)
(* white space, and atoms (a number literal, a keyword, a run of prose).   *)
(* The atoms of Alphabet and of SampleOutputs are chosen so that two       *)
(* neighbouring atoms never read as one JSON lexeme, and none holds a      *)
(* backslash: on such texts the token grammar below accepts exactly what   *)
(* json.loads accepts on the concatenated characters.                      *)
(***************************************************************************)
MaxRawLen == 3

Quote == "\""

Whitespace == {" ", "\n"}

NumberLiterals == {"0.9", "0.85"}

Literals == {"true", "false", "null"}

Alphabet == {"{", "}", "[", "]", ":", ",", Quote, " ", "0.9", "x"}

AllTexts(n) == UNION {[1..k -> Alphabet] : k \in 0..n}

\* Python values as json.loads builds them: str, float, bool/None, list, dict.
\* Every value has the same three fields; a dict is the sequence of its
\* members in insertion order.
JStr(text) == [t |-> "str", s |-> text, v |-> <<>>]

JNum(lit) == [t |-> "num", s |-> <<lit>>, v |-> <<>>]

JLit(lit) == [t |-> lit, s |-> <<>>, v |-> <<>>]

JArr(items) == [t |-> "list", s |-> <<>>, v |-> items]

JMember(key, val) == [t |-> "member", s |-> key, v |-> <<val>>]

JObj(members) == [t |-> "dict", s |-> <<>>, v |-> members]

\* dict[key] = val: a repeated key keeps its place and takes the new value.
DictSet(members, key, val) ==
    IF \E i \in DOMAIN members : members[i].s = key
    THEN [i \in DOMAIN members |->
             IF members[i].s = key THEN JMember(key, val) ELSE members[i]]
    ELSE Append(members, JMember(key, val))

Parsed(val, next) == [ok |-> TRUE, val |-> val, next |-> next]

JSONDecodeError == [ok |-> FALSE, val |-> JLit("null"), next |-> 0]

RECURSIVE SkipWs(_, _)
SkipWs(s, i) ==
    IF i <= Len(s) /\ s[i] \in Whitespace THEN SkipWs(s, i + 1) ELSE i

\* The closing quote of the string whose content starts at j, or 0: strict
\* mode refuses a control character inside a string.
RECURSIVE ClosingQuote(_, _)
ClosingQuote(s, j) ==
    IF j > Len(s) THEN 0
    ELSE IF s[j] = Quote THEN j
    ELSE IF s[j] = "\n" THEN 0
    ELSE ClosingQuote(s, j + 1)

RECURSIVE scan_once(_, _)
RECURSIVE JSONArray(_, _, _)
RECURSIVE JSONObject(_, _, _)

\* json.scanner: the value that starts at s[i].
scan_once(s, i) ==
    IF i > Len(s) THEN JSONDecodeError
    ELSE IF s[i] = Quote
    THEN IF ClosingQuote(s, i + 1) = 0 THEN JSONDecodeError
         ELSE Parsed(JStr(SubSeq(s, i + 1, ClosingQuote(s, i + 1) - 1)),
                     ClosingQuote(s, i + 1) + 1)
    ELSE IF s[i] = "{" THEN JSONObject(s, SkipWs(s, i + 1), <<>>)
    ELSE IF s[i] = "[" THEN JSONArray(s, SkipWs(s, i + 1), <<>>)
    ELSE IF s[i] \in Literals THEN Parsed(JLit(s[i]), i + 1)
    ELSE IF s[i] \in NumberLiterals THEN Parsed(JNum(s[i]), i + 1)
    ELSE JSONDecodeError

\* json.decoder.JSONArray: i is where the next item (or the "]" of an empty
\* list) is expected.
JSONArray(s, i, items) ==
    IF i > Len(s) THEN JSONDecodeError
    ELSE IF items = <<>> /\ s[i] = "]" THEN Parsed(JArr(<<>>), i + 1)
    ELSE LET r == scan_once(s, i) IN
         IF ~r.ok THEN JSONDecodeError
         ELSE LET j == SkipWs(s, r.next) IN
              IF j > Len(s) THEN JSONDecodeError
              ELSE IF s[j] = "]" THEN Parsed(JArr(Append(items, r.val)), j + 1)
              ELSE IF s[j] = ","
              THEN JSONArray(s, SkipWs(s, j + 1), Append(items, r.val))
              ELSE JSONDecodeError

\* json.decoder.JSONObject: i is where the next key (or the "}" of an empty
\* dict) is expected.
JSONObject(s, i, members) ==
    IF i > Len(s) THEN JSONDecodeError
    ELSE IF members = <<>> /\ s[i] = "}" THEN Parsed(JObj(<<>>), i + 1)
    ELSE IF s[i] # Quote THEN JSONDecodeError
    ELSE LET k == ClosingQuote(s, i + 1) IN
         IF k = 0 THEN JSONDecodeError
         ELSE LET c == SkipWs(s, k + 1) IN
              IF c > Len(s) THEN JSONDecodeError
              ELSE IF s[c] # ":" THEN JSONDecodeError
              ELSE LET r == scan_once(s, SkipWs(s, c + 1)) IN
                   IF ~r.ok THEN JSONDecodeError
                   ELSE LET j == SkipWs(s, r.next)
                            ms == DictSet(members, SubSeq(s, i + 1, k - 1), r.val)
                        IN  IF j > Len(s) THEN JSONDecodeError
                            ELSE IF s[j] = "}" THEN Parsed(JObj(ms), j + 1)
                            ELSE IF s[j] = ","
                            THEN JSONObject(s, SkipWs(s, j + 1), ms)
                            ELSE JSONDecodeError

\* json.loads(s): one value, white space around it, nothing else.
json_loads(s) ==
    LET r == scan_once(s, SkipWs(s, 1)) IN
    IF r.ok /\ SkipWs(s, r.next) > Len(s) THEN r ELSE JSONDecodeError

(***************************************************************************)
(* Restoration and translation.                                            *)
(***************************************************************************)
ProviderOutcomes == {"ok", "raises"}

\* Provider answers of the kinds seen in practice: prose, the requested
\* JSON object (bare, padded with newlines, inside a markdown fence), a JSON
\* scalar, nothing at all.
\* The markdown code fence (three backquotes), prose to the JSON grammar.
Fence == "<fence>"

SampleOutputs ==
    { <<"Here is the restored text">>,
      <<"{", Quote, "restored_text", Quote, ":", " ", Quote, "x", Quote, ",",
        " ", Quote, "confidence", Quote, ":", " ", "0.85", "}">>,
      <<"\n", "{", Quote, "translated_text", Quote, ":", Quote, "x", Quote,
        "}", "\n">>,
      <<Fence, "\n", "{", Quote, "restored_text", Quote, ":", Quote, "x",
        Quote, "}", "\n", Fence>>,
      <<Quote, "x", Quote>>,
      <<>> }

RestoreRequests == {[text |-> <<"x">>, language |-> "sanskrit", context |-> <<>>]}

TranslateRequests ==
    {[text |-> <<"x">>, source_language |-> "sanskrit",
      target_language |-> "english"]}

\* get_llm_client: raises without the key, else one new LlmChat session.
get_llm_client(key, llm) ==
    IF key THEN [raised |-> FALSE, llm |-> [llm EXCEPT !.sessions = @ + 1]]
    ELSE [raised |-> TRUE, llm |-> llm]

\* A send_message that sends its message again.
send_message_resending(llm) == [llm EXCEPT !.sent = @ + 2]

\* chat.send_message: one message to the provider.
send_message(llm) == [llm EXCEPT !.sent = @ + 1]

\* A restore_text whose stand-in was copied from translate_text.
restore_result_copied_fallback(response) ==
    IF json_loads(response).ok THEN json_loads(response).val
    ELSE JObj(<<JMember(<<"translated_text">>, JStr(response)),
                JMember(<<"cultural_notes">>,
                        JStr(<<"AI translation with cultural awareness">>)),
                JMember(<<"confidence">>, JNum("0.8"))>>)

\* restore_text, lines 241-252: the parsed value, or the structured stand-in.
restore_result(response) ==
    IF json_loads(response).ok THEN json_loads(response).val
    ELSE JObj(<<JMember(<<"restored_text">>, JStr(response)),
                JMember(<<"changes_made">>,
                        JArr(<<JStr(<<"AI restoration applied">>)>>)),
                JMember(<<"confidence">>, JNum("0.7")),
                JMember(<<"explanation">>,
                        JStr(<<"Text restored using AI cultural knowledge">>))>>)

\* A translate_text that keeps a parsed value only when it is an object.
translate_result_objects_only(response) ==
    IF json_loads(response).ok /\ json_loads(response).val.t = "dict"
    THEN json_loads(response).val
    ELSE JObj(<<JMember(<<"translated_text">>, JStr(response)),
                JMember(<<"cultural_notes">>,
                        JStr(<<"AI translation with cultural awareness">>)),
                JMember(<<"confidence">>, JNum("0.8"))>>)

\* translate_text, lines 289-298.
translate_result(response) ==
    IF json_loads(response).ok THEN json_loads(response).val
    ELSE JObj(<<JMember(<<"translated_text">>, JStr(response)),
                JMember(<<"cultural_notes">>,
                        JStr(<<"AI translation with cultural awareness">>)),
                JMember(<<"confidence">>, JNum("0.8"))>>)

\* restore_text up to the await of send_message.
restore_text_send(p, request) ==
    /\ Free(p)
    /\ task' = [task EXCEPT ![p] =
          LET chat == get_llm_client(EMERGENT_LLM_KEY, NoCalls) IN
          IF chat.raised
          THEN Returned("restore_text", {}, request, NoFields, chat.llm,
                        HTTPException(500, "Text restoration failed"))
          ELSE Suspended("restore_text", "send_message", {}, request,
                         NoFields, send_message(chat.llm))]
    /\ UNCHANGED <<stores, uploads, env, history>>

\* restore_text from the provider's answer to the return.
restore_text_reply(p, outputs) ==
    /\ task[p].op = "restore_text"
    /\ task[p].pc = "send_message"
    /\ \E out \in ProviderOutcomes :
        IF out = "raises"
        THEN task' = [task EXCEPT ![p] =
                 Returned(@.op, {}, @.arg, NoFields, @.llm,
                          HTTPException(500, "Text restoration failed"))]
        ELSE \E response \in outputs :
             task' = [task EXCEPT ![p] =
                 Returned(@.op, {}, @.arg, [response |-> response], @.llm,
                          OK(restore_result(response)))]
    /\ UNCHANGED <<stores, uploads, env, history>>

\* translate_text up to the await of send_message.
translate_text_send(p, request) ==
    /\ Free(p)
    /\ task' = [task EXCEPT ![p] =
          LET chat == get_llm_client(EMERGENT_LLM_KEY, NoCalls) IN
          IF chat.raised
          THEN Returned("translate_text", {}, request, NoFields, chat.llm,
                        HTTPException(500, "Translation failed"))
          ELSE Suspended("translate_text", "send_message", {}, request,
                         NoFields, send_message(chat.llm))]
    /\ UNCHANGED <<stores, uploads, env, history>>

\* translate_text from the provider's answer to the return.
translate_text_reply(p, outputs) ==
    /\ task[p].op = "translate_text"
    /\ task[p].pc = "send_message"
    /\ \E out \in ProviderOutcomes :
        IF out = "raises"
        THEN task' = [task EXCEPT ![p] =
                 Returned(@.op, {}, @.arg, NoFields, @.llm,
                          HTTPException(500, "Translation failed"))]
        ELSE \E response \in outputs :
             task' = [task EXCEPT ![p] =
                 Returned(@.op, {}, @.arg, [response |-> response], @.llm,
                          OK(translate_result(response)))]
    /\ UNCHANGED <<stores, uploads, env, history>>

\* Every provider answer of up to MaxRawLen tokens, and the samples.
ProviderOutputs == AllTexts(MaxRawLen) \cup SampleOutputs

NormalizerNext ==
    \/ \E r \in RestoreRequests : restore_text_send(1, r)
    \/ restore_text_reply(1, ProviderOutputs)
    \/ \E r \in TranslateRequests : translate_text_send(1, r)
    \/ translate_text_reply(1, ProviderOutputs)

(***************************************************************************)
(* Uploads and listings.                                                   *)
(***************************************************************************)
MaxDocs == 2

MaxSongs == 1

MaxUploads == 2

MaxOverCap == 1

DocListCap == 100

FileNames == {<<"manuscript.txt">>}

OcrForms ==
    {[filename |-> f, script_type |-> "devanagari", language |-> "hindi"] :
        f \in FileNames}

SongForms ==
    {[filename |-> f, performer |-> <<>>, region |-> <<>>, language |-> "hindi"] :
        f \in FileNames}

\* The requests of one handler that are suspended at an await.
Pending(op) ==
    Cardinality({q \in Tasks : task[q].op = op /\ ~Free(q)})

\* save_upload_file: the path of the staged copy.
save_upload_file(filename) ==
    [uuid |-> uuid4({f.uuid : f \in uploads}, "save_upload_file"),
     name |-> filename]

\* The stand-in for OCR, line 173.
extracted_text(filename) ==
    <<"[OCR Extracted Text from ">> \o filename
        \o <<"]", "\n", "<devanagari sample text>...">>

\* The stand-in for speech-to-text, line 318.
transcription_text(filename) ==
    <<"[Folk Song Transcription for ">> \o filename
        \o <<"]", "\n", "<devanagari sample lyrics>...">>

\* embedding_model.encode(text).tolist(): some vector that the text fixes.
encode(text) == [vector_of |-> text]

CulturalDocument(id, form) ==
    [id |-> id, created_at |-> utcnow, updated_at |-> utcnow,
     title |-> form.filename, description |-> None,
     script_type |-> Some(form.script_type), language |-> form.language,
     original_text |-> Some(extracted_text(form.filename)),
     restored_text |-> None, translation |-> <<>>, region |-> Some("Unknown"),
     time_period |-> None, restoration_confidence |-> None,
     embeddings |-> Some(encode(extracted_text(form.filename))),
     tags |-> <<"ocr", form.script_type, form.language>>]

FolkSong(id, form, file_path) ==
    [id |-> id, created_at |-> utcnow, updated_at |-> utcnow,
     title |-> form.filename, performer |-> Some(form.performer),
     region |-> form.region, language |-> form.language,
     transcription |-> Some(transcription_text(form.filename)),
     audio_path |-> Some(file_path), lyrics |-> None,
     cultural_significance |-> None,
     embeddings |-> Some(encode(transcription_text(form.filename)))]

\* A to_list that stops one record short of its length argument.
to_list_one_short(coll, n) ==
    SubSeq(coll, 1, IF Len(coll) < n - 1 THEN Len(coll) ELSE n - 1)

\* cursor.to_list(n): the first n records.
to_list(coll, n) == SubSeq(coll, 1, IF Len(coll) < n THEN Len(coll) ELSE n)

\* upload_document_ocr up to the return of save_upload_file: the upload is
\* staged.  maxdocs bounds the documents of the model.
upload_document_ocr_save(p, form, maxdocs) ==
    /\ Free(p)
    /\ Len(cultural_documents) + Pending("upload_document_ocr") < maxdocs
    /\ Cardinality(uploads) < MaxUploads
    /\ uploads' = uploads \cup {save_upload_file(form.filename)}
    /\ task' = [task EXCEPT ![p] =
          Suspended("upload_document_ocr", "insert_one", {}, form,
                    [file_path |-> save_upload_file(form.filename)], NoCalls)]
    /\ UNCHANGED <<stores, env, history>>

\* upload_document_ocr from the record's construction to the return: encode
\* raises when the embedding model is None, insert_one may raise, and only
\* after both is the staged file removed.
upload_document_ocr_insert(p) ==
    /\ task[p].op = "upload_document_ocr"
    /\ task[p].pc = "insert_one"
    /\ \E out \in StoreOutcomes :
        LET document == CulturalDocument(uuid4(IdsOf(cultural_documents), task[p].op),
                                        task[p].arg) IN
        IF embedding_model = "None" \/ out = "raises"
        THEN /\ task' = [task EXCEPT ![p] =
                   Returned(@.op, {}, @.arg, @.loc, NoCalls,
                            HTTPException(500, "OCR processing failed"))]
             /\ UNCHANGED <<cultural_documents, uploads, uploaded>>
        ELSE /\ cultural_documents' = insert_one(cultural_documents, document)
             /\ uploads' = uploads \ {task[p].loc.file_path}
             /\ uploaded' = uploaded \cup {document.id}
             /\ task' = [task EXCEPT ![p] =
                   Returned(@.op, {}, @.arg, @.loc, NoCalls,
                            OK([document_id |-> document.id,
                                extracted_text |-> extracted_text(@.arg.filename),
                                script_type |-> @.arg.script_type,
                                language |-> @.arg.language,
                                status |-> "success"]))]
    /\ UNCHANGED <<folk_songs, stories, user_progress, env, awards, observed>>

\* upload_folk_song up to the return of save_upload_file.
upload_folk_song_save(p, form) ==
    /\ Free(p)
    /\ Len(folk_songs) + Pending("upload_folk_song") < MaxSongs
    /\ Cardinality(uploads) < MaxUploads
    /\ uploads' = uploads \cup {save_upload_file(form.filename)}
    /\ task' = [task EXCEPT ![p] =
          Suspended("upload_folk_song", "insert_one", {}, form,
                    [file_path |-> save_upload_file(form.filename)], NoCalls)]
    /\ UNCHANGED <<stores, env, history>>

\* upload_folk_song from the record's construction to the return; no path
\* removes the staged file, whose path the record keeps as audio_path.
upload_folk_song_insert(p) ==
    /\ task[p].op = "upload_folk_song"
    /\ task[p].pc = "insert_one"
    /\ \E out \in StoreOutcomes :
        LET folk_song == FolkSong(uuid4(IdsOf(folk_songs), task[p].op), task[p].arg,
                                 task[p].loc.file_path) IN
        IF embedding_model = "None" \/ out = "raises"
        THEN /\ task' = [task EXCEPT ![p] =
                   Returned(@.op, {}, @.arg, @.loc, NoCalls,
                            HTTPException(500, "Speech processing failed"))]
             /\ UNCHANGED folk_songs
        ELSE /\ folk_songs' = insert_one(folk_songs, folk_song)
             /\ task' = [task EXCEPT ![p] =
                   Returned(@.op, {}, @.arg, @.loc, NoCalls,
                            OK([song_id |-> folk_song.id,
                                transcription |-> transcription_text(@.arg.filename),
                                performer |-> @.arg.performer,
                                region |-> @.arg.region,
                                status |-> "success"]))]
    /\ UNCHANGED <<cultural_documents, stories, user_progress, uploads, env,
                   history>>

\* get_documents: the first DocListCap records.
get_documents(p) ==
    /\ Free(p)
    /\ \E out \in StoreOutcomes :
        task' = [task EXCEPT ![p] =
            IF out = "raises"
            THEN Returned("get_documents", {}, NoFields, NoFields, NoCalls,
                          InternalServerError)
            ELSE Returned("get_documents", {}, NoFields, NoFields, NoCalls,
                          OK(to_list(cultural_documents, DocListCap)))]
    /\ UNCHANGED <<stores, uploads, env, history>>

(***************************************************************************)
(* Story generation.                                                       *)
(***************************************************************************)
MaxStories == 1

\* A document_id no record carries: uuid4 values are counted from 1 here.
UnknownId == 0

StoryTypes == {"summary", "interactive", "quiz", "poem"}

StoryOutputs == {<<"Once upon a time">>, <<"[", "]">>}

StoryRequests(document_ids) ==
    {[document_id |-> d, story_type |-> t, target_language |-> "english"] :
        d \in document_ids, t \in StoryTypes}

\* Lines 363-400: the prompt of the three known story types; for any other
\* story_type no branch binds the name (None here).
story_prompt(doc, request) ==
    IF request.story_type = "summary"
    THEN Some(<<"Create an engaging summary", request.target_language>>
              \o doc.title \o doc.original_text[1] \o <<doc.language>>)
    ELSE IF request.story_type = "interactive"
    THEN Some(<<"Create an interactive story experience">>
              \o doc.title \o doc.original_text[1])
    ELSE IF request.story_type = "quiz"
    THEN Some(<<"Create educational quiz questions">>
              \o doc.title \o doc.original_text[1])
    ELSE None

\* str.title() of a story type
title(story_type) ==
    CASE story_type = "summary" -> "Summary"
      [] story_type = "interactive" -> "Interactive"
      [] story_type = "quiz" -> "Quiz"
      [] OTHER -> "Poem"

\* A Story that leaves source_document_id at its default.
Story_without_source(id, doc, request, response) ==
    [id |-> id, created_at |-> utcnow, updated_at |-> utcnow,
     title |-> doc.title \o <<" - ", title(request.story_type)>>,
     content |-> response,
     source_document_id |-> None,
     story_type |-> request.story_type, language |-> request.target_language,
     audio_narration |-> None, quiz_questions |-> None]

Story(id, doc, request, response) ==
    [id |-> id, created_at |-> utcnow, updated_at |-> utcnow,
     title |-> doc.title \o <<" - ", title(request.story_type)>>,
     content |-> response,
     source_document_id |-> Some(request.document_id),
     story_type |-> request.story_type, language |-> request.target_language,
     audio_narration |-> None, quiz_questions |-> None]

Raise(type, status_code, llm) ==
    [raised |-> TRUE, type |-> type, status_code |-> status_code, llm |-> llm]

\* A generate_story that builds its provider session before it looks at the
\* result of the lookup.
generate_story_prepare_session_first(doc, key, request) ==
    IF get_llm_client(key, NoCalls).raised
    THEN Raise("HTTPException", 500, NoCalls)
    ELSE IF doc = None
    THEN Raise("HTTPException", 404, get_llm_client(key, NoCalls).llm)
    ELSE IF story_prompt(doc[1], request) = None
    THEN Raise("UnboundLocalError", 0, get_llm_client(key, NoCalls).llm)
    ELSE [raised |-> FALSE, type |-> "", status_code |-> 0,
          llm |-> send_message(get_llm_client(key, NoCalls).llm)]

\* generate_story, lines 357-402, from the result doc of the lookup to the
\* sending of the prompt: what is raised on the way, and what has been asked
\* of the provider by then.
generate_story_prepare(doc, key, request) ==
    IF doc = None THEN Raise("HTTPException", 404, NoCalls)
    ELSE IF get_llm_client(key, NoCalls).raised
    THEN Raise("HTTPException", 500, NoCalls)
    ELSE IF story_prompt(doc[1], request) = None
    THEN Raise("UnboundLocalError", 0, get_llm_client(key, NoCalls).llm)
    ELSE [raised |-> FALSE, type |-> "", status_code |-> 0,
          llm |-> send_message(get_llm_client(key, NoCalls).llm)]

\* Lines 424-426: whatever the try block raised, the HTTPException of the
\* unknown document included, is answered as a 500.
generate_story_except(type, status_code) ==
    HTTPException(500, "Story generation failed")

\* generate_story up to the await of send_message.  maxstories bounds the
\* stories of the model.
generate_story_find(p, request, maxstories) ==
    /\ Free(p)
    /\ Len(stories) + Pending("generate_story") < maxstories
    /\ \E out \in StoreOutcomes :
        LET doc == find_one(cultural_documents, "id", request.document_id)
            try == generate_story_prepare(doc, EMERGENT_LLM_KEY, request)
        IN  task' = [task EXCEPT ![p] =
                IF out = "raises"
                THEN Returned("generate_story", {}, request, NoFields, NoCalls,
                              generate_story_except("PyMongoError", 0))
                ELSE IF try.raised
                THEN Returned("generate_story", {}, request, [doc |-> doc],
                              try.llm,
                              generate_story_except(try.type, try.status_code))
                ELSE Suspended("generate_story", "send_message", {}, request,
                               [doc |-> doc], try.llm)]
    /\ UNCHANGED <<stores, uploads, env, history>>

\* generate_story from the provider's answer to the await of insert_one.
generate_story_reply(p, outputs) ==
    /\ task[p].op = "generate_story"
    /\ task[p].pc = "send_message"
    /\ \E out \in ProviderOutcomes :
        IF out = "raises"
        THEN task' = [task EXCEPT ![p] =
                 Returned(@.op, {}, @.arg, @.loc, @.llm,
                          generate_story_except("ProviderError", 0))]
        ELSE \E response \in outputs :
             LET new_id == uuid4(IdsOf(stories), "generate_story") IN
             task' = [task EXCEPT ![p] =
                 Suspended(@.op, "insert_one", {new_id}, @.arg,
                           [doc |-> @.loc.doc, response |-> response,
                            story |-> Story(new_id, @.loc.doc[1], @.arg,
                                            response)],
                           @.llm)]
    /\ UNCHANGED <<stores, uploads, env, history>>

\* generate_story from the insert to the return.
generate_story_insert(p) ==
    /\ task[p].op = "generate_story"
    /\ task[p].pc = "insert_one"
    /\ \E out \in StoreOutcomes :
        IF out = "raises"
        THEN /\ task' = [task EXCEPT ![p] =
                   Returned(@.op, {}, @.arg, @.loc, @.llm,
                            generate_story_except("PyMongoError", 0))]
             /\ UNCHANGED stories
        ELSE /\ stories' = insert_one(stories, task[p].loc.story)
             /\ task' = [task EXCEPT ![p] =
                   Returned(@.op, {}, @.arg, @.loc, @.llm,
                            OK([story_id |-> @.loc.story.id,
                                content |-> @.loc.response,
                                story_type |-> @.arg.story_type,
                                source_document |-> @.loc.doc[1].title]))]
    /\ UNCHANGED <<cultural_documents, folk_songs, user_progress, uploads, env,
                   history>>

(***************************************************************************)
(* Search.                                                                 *)
(*                                                                         *)
(* The keyword mode hands the query to the store as a regular expression,  *)
(* so the texts it is matched against are read character by character.     *)
(* The queries of the model are written with q, Q, the dot and the star;   *)
(* of the regular expression syntax the model has the literal, the dot     *)
(* and the star, which is all that such queries can use.                   *)
(***************************************************************************)
MaxQueryLen == 2

MaxLimit == 2

\* The scores of line 454 and line 465, in tenths.
DocumentScore == 8

FolkSongScore == 7

ContentCap == 200

QueryChars == {"q", "Q", ".", "*"}

Queries == UNION {[1..k -> QueryChars] : k \in 0..MaxQueryLen}

SearchFileNames == {<<"q">>, <<"z">>}

SearchForms ==
    {[filename |-> f, script_type |-> "devanagari", language |-> "hindi"] :
        f \in SearchFileNames}

SearchTypes == {"semantic", "keyword", "fuzzy"}

SampleQueries == {<<"q">>}

SearchRequests(queries, search_types) ==
    {[query |-> q, search_type |-> t, language |-> None, limit |-> n] :
        q \in queries, t \in search_types, n \in 0..MaxLimit}

\* The characters of a token.  The Devanagari sample of line 173 is one
\* symbol followed by its three dots; a token not listed is one character.
Spell(token) ==
    CASE token = "[OCR Extracted Text from " ->
            <<"[", "O", "C", "R", " ", "E", "x", "t", "r", "a", "c", "t", "e",
              "d", " ", "T", "e", "x", "t", " ", "f", "r", "o", "m", " ">>
      [] token = "<devanagari sample text>..." ->
            <<"<devanagari>", ".", ".", ".">>
      [] OTHER -> <<token>>

RECURSIVE Chars(_)
Chars(text) ==
    IF text = <<>> THEN <<>> ELSE Spell(text[1]) \o Chars(SubSeq(text, 2, Len(text)))

\* Case folding, for the letters that occur.
lower(c) ==
    CASE c = "Q" -> "q"
      [] c = "O" -> "o"
      [] c = "C" -> "c"
      [] c = "R" -> "r"
      [] c = "E" -> "e"
      [] c = "T" -> "t"
      [] OTHER -> c

\* The regular expression of a pattern: its atoms, each a character (the dot
\* is any character but the newline) that a star following it repeats.  A
\* star that follows no atom makes the pattern invalid.
RECURSIVE regex_compile(_, _)
regex_compile(pattern, i) ==
    IF i > Len(pattern) THEN [ok |-> TRUE, atoms |-> <<>>]
    ELSE IF pattern[i] = "*" THEN [ok |-> FALSE, atoms |-> <<>>]
    ELSE LET star == i < Len(pattern) /\ pattern[i + 1] = "*"
             rest == regex_compile(pattern, IF star THEN i + 2 ELSE i + 1)
         IN  IF rest.ok
             THEN [ok |-> TRUE,
                   atoms |-> <<[c |-> pattern[i], star |-> star]>> \o rest.atoms]
             ELSE rest

AtomMatches(atom, ch) ==
    IF atom.c = "." THEN ch # "\n" ELSE lower(atom.c) = lower(ch)

\* Whether atoms k.. match a run of chars that starts at position i.
RECURSIVE MatchAt(_, _, _, _)
MatchAt(atoms, k, chars, i) ==
    IF k > Len(atoms) THEN TRUE
    ELSE IF atoms[k].star
    THEN \/ MatchAt(atoms, k + 1, chars, i)
         \/ /\ i <= Len(chars)
            /\ AtomMatches(atoms[k], chars[i])
            /\ MatchAt(atoms, k, chars, i + 1)
    ELSE /\ i <= Len(chars)
         /\ AtomMatches(atoms[k], chars[i])
         /\ MatchAt(atoms, k + 1, chars, i + 1)

\* {"$regex": pattern, "$options": "i"} on a string: a match anywhere.
regex_search(atoms, chars) ==
    \E i \in 1..(Len(chars) + 1) : MatchAt(atoms, 1, chars, i)

\* The $or of lines 474-478 on one document; a field that is None matches
\* no pattern.
keyword_match(doc, atoms) ==
    \/ regex_search(atoms, Chars(doc.title))
    \/ doc.original_text # None /\ regex_search(atoms, Chars(doc.original_text[1]))
    \/ doc.description # None /\ regex_search(atoms, Chars(doc.description[1]))

keyword_find(coll, atoms) ==
    LET Hit(doc) == keyword_match(doc, atoms) IN SelectSeq(coll, Hit)

\* cursor.limit(n): the first n records; a limit of 0 is no limit.
limit(coll, n) ==
    IF n = 0 THEN coll ELSE SubSeq(coll, 1, IF Len(coll) < n THEN Len(coll) ELSE n)

\* A sort that puts the lower scores first.
RECURSIVE sorted_ascending(_)
sorted_ascending(list) ==
    IF list = <<>> THEN <<>>
    ELSE LET front == sorted_ascending(SubSeq(list, 1, Len(list) - 1))
             x == list[Len(list)]
             k == Cardinality({i \in DOMAIN front : front[i].score <= x.score})
         IN  SubSeq(front, 1, k) \o <<x>> \o SubSeq(front, k + 1, Len(front))

\* sorted(list, key=score, reverse=True): by falling score, the items of one
\* score in the order they had.
RECURSIVE sorted(_)
sorted(list) ==
    IF list = <<>> THEN <<>>
    ELSE LET front == sorted(SubSeq(list, 1, Len(list) - 1))
             x == list[Len(list)]
             k == Cardinality({i \in DOMAIN front : front[i].score >= x.score})
         IN  SubSeq(front, 1, k) \o <<x>> \o SubSeq(front, k + 1, Len(front))

document_item(doc) ==
    [type |-> "document", id |-> doc.id, title |-> doc.title,
     content |-> doc.original_text, language |-> doc.language,
     region |-> doc.region, score |-> DocumentScore]

folk_song_item(song) ==
    [type |-> "folk_song", id |-> song.id, title |-> song.title,
     content |-> song.transcription, performer |-> song.performer,
     region |-> song.region, score |-> FolkSongScore]

\* Lines 480-487: the first 200 characters of the text and three dots.
keyword_item(doc) ==
    [type |-> "document", id |-> doc.id, title |-> doc.title,
     content |->
        SubSeq(Chars(doc.original_text[1]), 1,
               IF Len(Chars(doc.original_text[1])) < ContentCap
               THEN Len(Chars(doc.original_text[1])) ELSE ContentCap)
            \o <<".", ".", ".">>,
     language |-> doc.language, region |-> doc.region]

search_response(request, results) ==
    OK([query |-> request.query, search_type |-> request.search_type,
        results |-> results, total_found |-> Len(results)])

\* search_content up to its first answer from the store.  The semantic mode
\* encodes the query, reads the documents and goes on to the folk songs;
\* every other search_type is served by the else branch, the keyword mode,
\* which answers from this one read.
search_content_documents(p, request) ==
    /\ Free(p)
    /\ \E out \in StoreOutcomes :
        LET regex == regex_compile(request.query, 1)
            documents == limit(keyword_find(cultural_documents, regex.atoms),
                               request.limit)
            failed == HTTPException(500, "Search failed")
        IN  task' = [task EXCEPT ![p] =
                IF request.search_type = "semantic"
                THEN IF embedding_model = "None" \/ out = "raises"
                     THEN Returned("search_content", {}, request, NoFields,
                                   NoCalls, failed)
                     ELSE Suspended("search_content", "folk_songs", {}, request,
                                    [documents |->
                                        limit(cultural_documents, request.limit)],
                                    NoCalls)
                ELSE IF ~regex.ok \/ out = "raises"
                     THEN Returned("search_content", {}, request, NoFields,
                                   NoCalls, failed)
                     ELSE Returned("search_content", {}, request,
                                   [documents |-> documents], NoCalls,
                                   search_response(request,
                                       [i \in DOMAIN documents |->
                                           keyword_item(documents[i])]))]
    /\ UNCHANGED <<stores, uploads, env, history>>

\* The semantic mode from the answer with the folk songs to the return.
search_content_folk_songs(p) ==
    /\ task[p].op = "search_content"
    /\ task[p].pc = "folk_songs"
    /\ \E out \in StoreOutcomes :
        LET documents == task[p].loc.documents
            songs == limit(folk_songs, task[p].arg.limit)
            all_content ==
                [i \in DOMAIN documents |-> document_item(documents[i])]
                \o [i \in DOMAIN songs |-> folk_song_item(songs[i])]
        IN  task' = [task EXCEPT ![p] =
                IF out = "raises"
                THEN Returned(@.op, {}, @.arg, @.loc, NoCalls,
                              HTTPException(500, "Search failed"))
                ELSE Returned(@.op, {}, @.arg,
                              [documents |-> documents, folk_songs |-> songs],
                              NoCalls,
                              search_response(@.arg, sorted(all_content)))]
    /\ UNCHANGED <<stores, uploads, env, history>>

\* Document uploads and keyword searches with every query of Queries; one
\* request at a time.
KeywordNext ==
    \/ \E f \in SearchForms : upload_document_ocr_save(1, f, MaxDocs)
    \/ upload_document_ocr_insert(1)
    \/ \E r \in SearchRequests(Queries, {"keyword"}) :
           search_content_documents(1, r)

\* Uploads of documents and folk songs, and searches of every search_type
\* with the queries of SampleQueries; one request at a time.
SearchNext ==
    \/ \E f \in SearchForms : upload_document_ocr_save(1, f, MaxDocs)
    \/ upload_document_ocr_insert(1)
    \/ \E f \in SongForms : upload_folk_song_save(1, f)
    \/ upload_folk_song_insert(1)
    \/ \E r \in SearchRequests(SampleQueries, SearchTypes) :
           search_content_documents(1, r)
    \/ search_content_folk_songs(1)

\* The two upload endpoints, NumTasks requests at a time.
UploadNext ==
    \E p \in Tasks :
        \/ \E f \in OcrForms : upload_document_ocr_save(p, f, MaxDocs)
        \/ upload_document_ocr_insert(p)
        \/ \E f \in SongForms : upload_folk_song_save(p, f)
        \/ upload_folk_song_insert(p)

\* The ids a story is asked for: an unknown one, and those of the i-th stored
\* documents for i in positions.
RequestedIds(positions) ==
    {UnknownId} \cup {cultural_documents[i].id :
                         i \in positions \cap DOMAIN cultural_documents}

\* Summaries of the first document, NumTasks requests at a time and as many
\* stories; the documents, MaxSources of them, are uploaded by task 1.
MaxSources == 1

SummaryRequests ==
    {r \in StoryRequests(RequestedIds({1})) :
        r.document_id # UnknownId /\ r.story_type = "summary"}

ConcurrentNext ==
    \/ \E f \in OcrForms : upload_document_ocr_save(1, f, MaxSources)
    \/ upload_document_ocr_insert(1)
    \/ \E p \in Tasks :
        \/ \E r \in SummaryRequests : generate_story_find(p, r, NumTasks)
        \/ generate_story_reply(p, StoryOutputs)
        \/ generate_story_insert(p)

\* Document uploads and story requests, one request at a time.
StoryNext ==
    \/ \E f \in OcrForms : upload_document_ocr_save(1, f, MaxDocs)
    \/ upload_document_ocr_insert(1)
    \/ \E r \in StoryRequests(RequestedIds(1..MaxDocs)) :
           generate_story_find(1, r, MaxStories)
    \/ generate_story_reply(1, StoryOutputs)
    \/ generate_story_insert(1)

\* Uploads past the cap of the listing, the listing, and stories of the last
\* document within the cap and of the first one past it; one request at a
\* time.
CapNext ==
    \/ \E f \in OcrForms :
           upload_document_ocr_save(1, f, DocListCap + MaxOverCap)
    \/ upload_document_ocr_insert(1)
    \/ get_documents(1)
    \/ \E r \in StoryRequests(RequestedIds({DocListCap, DocListCap + 1})) :
           generate_story_find(1, r, MaxStories)
    \/ generate_story_reply(1, StoryOutputs)
    \/ generate_story_insert(1)

\* The three endpoints that call the provider, and the document uploads the
\* stories need; one request at a time.
ProviderNext ==
    \/ \E f \in OcrForms : upload_document_ocr_save(1, f, MaxDocs)
    \/ upload_document_ocr_insert(1)
    \/ \E r \in RestoreRequests : restore_text_send(1, r)
    \/ restore_text_reply(1, SampleOutputs)
    \/ \E r \in TranslateRequests : translate_text_send(1, r)
    \/ translate_text_reply(1, SampleOutputs)
    \/ \E r \in StoryRequests(RequestedIds(1..MaxDocs)) :
           generate_story_find(1, r, MaxStories)
    \/ generate_story_reply(1, StoryOutputs)
    \/ generate_story_insert(1)

(***************************************************************************)
(* Specifications.                                                         *)
(***************************************************************************)
Init ==
    /\ cultural_documents = <<>>
    /\ folk_songs = <<>>
    /\ stories = <<>>
    /\ user_progress = <<>>
    /\ uploads = {}
    /\ EMERGENT_LLM_KEY \in BOOLEAN
    /\ embedding_model \in {"loaded", "None"}
    /\ task = [p \in Tasks |-> IdleTask]
    /\ awards = [u \in Users |-> [count |-> 0, names |-> {}]]
    /\ uploaded = {}
    /\ observed = [u \in Users |-> [stored |-> 0, badges |-> {}, fell |-> FALSE]]

\* The gamification endpoints alone, NumTasks requests at a time.  They read
\* neither the provider key nor the embedding model.
LedgerInit == Init /\ EMERGENT_LLM_KEY /\ embedding_model = "loaded"

LedgerSpec == LedgerInit /\ [][LedgerNext]_vars

ConcurrentSpec == LedgerInit /\ [][ConcurrentNext]_vars

LedgerSeqSpec == LedgerInit /\ [][LedgerSeqNext]_vars

FetchSpec == LedgerInit /\ [][FetchNext]_vars

ProviderSpec == Init /\ [][ProviderNext]_vars

KeywordSpec == Init /\ [][KeywordNext]_vars

SearchSpec == Init /\ [][SearchNext]_vars

UploadSpec == Init /\ [][UploadNext]_vars

StorySpec == Init /\ [][StoryNext]_vars

CapSpec == Init /\ [][CapNext]_vars

\* /restore and /translate, one request at a time, over every provider answer
\* of ProviderOutputs.  The two handlers touch no state that requests share.
NormalizerSpec == Init /\ [][NormalizerNext]_vars

(***************************************************************************)
(* Properties.                                                             *)
(***************************************************************************)
Done(p, op) == task[p].op = op /\ task[p].pc = "done"

Succeeded(p, op) == Done(p, op) /\ task[p].resp.status = 200

Occurrences(list, v) == Cardinality({i \in DOMAIN list : list[i] = v})

\* C5: under any interleaving of concurrent GET /user/{u}/progress requests
\* for a user nobody has seen (no badge award has touched the user either),
\* user_progress holds at most one record of that user, and every such
\* request that has answered returned the record with that one id.
C5_OneRecordPerUnseenUser ==
    \A u \in Users :
        awards[u].count = 0 =>
            /\ Cardinality(Matching(user_progress, "user_id", u)) <= 1
            /\ \A p \in Tasks :
                   (Succeeded(p, "get_user_progress") /\ task[p].arg.user_id = u)
                   => task[p].resp.body.id = StoredProgress(u)[1].id

\* C6: every award the store applies, a repeat of a badge the user holds
\* included, raises the user's stored points by exactly 10 and leaves every
\* awarded badge exactly once in the stored list; after n awards the stored
\* points are 10*n.
C6_EachAwardAddsTenPoints ==
    [][\A u \in Users :
          awards'[u].count = awards[u].count + 1 =>
              /\ StoredPoints(u)' = StoredPoints(u) + 10
              /\ StoredPoints(u)' = 10 * awards'[u].count
              /\ \A b \in awards'[u].names : Occurrences(StoredBadges(u)', b) = 1
      ]_vars

\* A badge awarded twice to a user whose zero record a progress fetch made:
\* 20 points, the badge once.
C6_RepeatAwardReached ==
    \E u \in Users, b \in Badges :
        /\ awards[u] = [count |-> 2, names |-> {b}]
        /\ StoredProgress(u) # <<>>
        /\ "id" \in DOMAIN StoredProgress(u)[1]
        /\ StoredPoints(u) = 20
        /\ StoredBadges(u) = <<b>>

C8_AwardsAreAtomic ==
    \A u \in Users :
        /\ StoredPoints(u) = 10 * awards[u].count
        /\ Range(StoredBadges(u)) = awards[u].names
        /\ Len(StoredBadges(u)) = Cardinality(awards[u].names)

\* Two award requests for one user, the first of which created the record
\* (an upsert: the record has no id), have both answered.
C8_TwoAwardsReached ==
    \E u \in Users :
        /\ \A p \in Tasks : Succeeded(p, "award_badge") /\ task[p].arg.user_id = u
        /\ task[1].arg.badge_name # task[2].arg.badge_name
        /\ "id" \notin DOMAIN StoredProgress(u)[1]
        /\ StoredPoints(u) = 20
        /\ Len(StoredBadges(u)) = 2

\* The story requests whose lookup the store answered: generate_story got
\* past line 356, with the document or with None.
Looked(t) == t.op = "generate_story" /\ "doc" \in DOMAIN t.loc

KnownStoryTypes == {"summary", "interactive", "quiz"}

UploadOps == {"upload_document_ocr", "upload_folk_song"}

\* C1: a completed POST /story/generate whose lookup found no record of the
\* requested document_id answered with status 404.
C1_UnknownDocumentAnswers404 ==
    \A p \in Tasks :
        (Done(p, "generate_story") /\ Looked(task[p]) /\ task[p].loc.doc = None)
            => task[p].resp.status = 404

\* C2: the step of a POST /story/generate whose document_id no stored
\* document carries completes the request with no LLM session created and no
\* message sent, and leaves the stories, cultural_documents, folk_songs and
\* user_progress collections as they were.
C2_UnknownDocumentTouchesNothing ==
    [][\A p \in Tasks :
          (/\ task'[p] # task[p]
           /\ task[p].pc \notin {"send_message", "insert_one"}
           /\ task'[p].op = "generate_story"
           /\ task'[p].arg.document_id \notin IdsOf(cultural_documents))
          => /\ task'[p].pc = "done"
             /\ task'[p].llm = [sessions |-> 0, sent |-> 0]
             /\ stores' = stores
      ]_vars

\* An unknown document_id asked of a service that has its provider key and
\* holds a document: the lookup answered None.
C2_UnknownIdWithKeyReached ==
    \E p \in Tasks :
        /\ Done(p, "generate_story")
        /\ Looked(task[p])
        /\ task[p].loc.doc = None
        /\ task[p].arg.document_id = UnknownId
        /\ EMERGENT_LLM_KEY
        /\ Len(cultural_documents) > 0

\* C3: a completed POST /story/generate for a stored document with a
\* story_type other than summary, interactive and quiz was answered as an
\* invalid request (a 4xx status), with no provider message sent and no story
\* of that type stored.
C3_UnknownStoryTypeRejected ==
    /\ \A p \in Tasks :
        (/\ Done(p, "generate_story")
         /\ Looked(task[p])
         /\ task[p].loc.doc # None
         /\ task[p].arg.story_type \notin KnownStoryTypes)
        => /\ task[p].resp.status \in 400..499
           /\ task[p].llm.sent = 0
    /\ \A i \in DOMAIN stories : stories[i].story_type \in KnownStoryTypes

\* C4: every file in the upload directory belongs to an upload request that
\* has not completed; once the requests have completed the directory is empty.
C4_NoStagedFileOutlivesItsRequest ==
    \A f \in uploads :
        \E p \in Tasks :
            /\ task[p].op \in UploadOps
            /\ ~Free(p)
            /\ task[p].loc.file_path = f

\* The document_ids among the first n stored documents.
FirstIds(n) ==
    {cultural_documents[i].id : i \in (1..n) \cap DOMAIN cultural_documents}

\* What a story request that got its lookup answered found, for a
\* document_id an upload returned: that document.
StoryFindsUploaded(p) ==
    (/\ task'[p] # task[p]
     /\ task[p].pc \notin {"send_message", "insert_one"}
     /\ Looked(task'[p])
     /\ task'[p].arg.document_id \in uploaded)
    => /\ task'[p].loc.doc # None
       /\ task'[p].loc.doc[1].id = task'[p].arg.document_id
       /\ task'[p].pc = "done" => task'[p].resp.status # 404

C10_FallbackOnUnparseableOutput ==
    \A p \in Tasks :
        (task[p].pc = "done" /\ "response" \in DOMAIN task[p].loc
         /\ ~json_loads(task[p].loc.response).ok)
        => /\ task[p].op = "restore_text" =>
                task[p].resp =
                    [status |-> 200,
                     body |-> JObj(<<
                        JMember(<<"restored_text">>, JStr(task[p].loc.response)),
                        JMember(<<"changes_made">>,
                                JArr(<<JStr(<<"AI restoration applied">>)>>)),
                        JMember(<<"confidence">>, JNum("0.7")),
                        JMember(<<"explanation">>,
                                JStr(<<"Text restored using AI cultural knowledge">>))>>)]
           /\ task[p].op = "translate_text" =>
                task[p].resp =
                    [status |-> 200,
                     body |-> JObj(<<
                        JMember(<<"translated_text">>, JStr(task[p].loc.response)),
                        JMember(<<"cultural_notes">>,
                                JStr(<<"AI translation with cultural awareness">>)),
                        JMember(<<"confidence">>, JNum("0.8"))>>)]

\* /restore has answered a provider output that wraps its JSON in a markdown
\* fence, which json.loads refuses, with the raw output as restored_text.
C10_FencedOutputReached ==
    /\ Succeeded(1, "restore_text")
    /\ Fence \in Range(task[1].loc.response)
    /\ ~json_loads(task[1].loc.response).ok
    /\ task[1].resp.body.v[1] = JMember(<<"restored_text">>, JStr(task[1].loc.response))

\* The keys of a JSON value (none unless it is an object) and the value
\* under a key.
Keys(val) == IF val.t = "dict" THEN {val.v[i].s : i \in DOMAIN val.v} ELSE {}

Field(val, key) ==
    val.v[CHOOSE i \in DOMAIN val.v : val.v[i].s = key].v[1]

\* C11: every 200 response of /restore is an object with restored_text,
\* changes_made, confidence and explanation, its restored_text a non-empty
\* string and its confidence a (positive) number; every 200 response of
\* /translate is an object with translated_text, cultural_notes and
\* confidence.
C11_ResponsesCarryTheirFields ==
    \A p \in Tasks :
        /\ Succeeded(p, "restore_text") =>
            /\ {<<"restored_text">>, <<"changes_made">>, <<"confidence">>,
                <<"explanation">>} \subseteq Keys(task[p].resp.body)
            /\ Field(task[p].resp.body, <<"restored_text">>).t = "str"
            /\ Field(task[p].resp.body, <<"restored_text">>).s # <<>>
            /\ Field(task[p].resp.body, <<"confidence">>).t = "num"
        /\ Succeeded(p, "translate_text") =>
            {<<"translated_text">>, <<"cultural_notes">>, <<"confidence">>}
                \subseteq Keys(task[p].resp.body)

\* C12: when json.loads accepts the provider output, the 200 response of
\* /restore and of /translate is the parsed value itself, whatever its type
\* and its keys.
C12_ParsedOutputPassesThrough ==
    \A p \in Tasks :
        (/\ task[p].op \in {"restore_text", "translate_text"}
         /\ task[p].pc = "done"
         /\ "response" \in DOMAIN task[p].loc
         /\ json_loads(task[p].loc.response).ok)
        => task[p].resp =
               [status |-> 200, body |-> json_loads(task[p].loc.response).val]

\* /translate has answered a provider output that is valid JSON but no
\* object (a string, a number, a list) with that value.
C12_ScalarPassedThroughReached ==
    /\ Succeeded(1, "translate_text")
    /\ json_loads(task[1].loc.response).ok
    /\ task[1].resp.body.t \in {"str", "list"}
    /\ task[1].resp.body = json_loads(task[1].loc.response).val

\* C13: when the provider call of /restore, /translate or /story/generate
\* fails (the request was waiting for the provider and got no response), the
\* request ends in that step with status 500 and its handler's message,
\* having built one session and sent one message, and the four collections
\* are as they were.
C13_ProviderFailureSurfacedOnce ==
    [][\A p \in Tasks :
          (/\ task[p].pc = "send_message"
           /\ task'[p] # task[p]
           /\ "response" \notin DOMAIN task'[p].loc)
          => /\ task'[p].pc = "done"
             /\ task'[p].resp \in
                  {[status |-> 500, detail |-> d] :
                      d \in {"Text restoration failed", "Translation failed",
                             "Story generation failed"}}
             /\ task'[p].llm = [sessions |-> 1, sent |-> 1]
             /\ stores' = stores
      ]_vars

\* A story request for a stored document and a known story type whose
\* provider call failed: one message sent, status 500, no story stored.
C13_FailedStoryCallReached ==
    \E p \in Tasks :
        /\ Done(p, "generate_story")
        /\ Looked(task[p])
        /\ task[p].loc.doc # None
        /\ "response" \notin DOMAIN task[p].loc
        /\ task[p].llm.sent = 1
        /\ task[p].resp.status = 500
        /\ stories = <<>>

\* C14: every record of the four collections has an id, a created_at and an
\* updated_at.
C14_EveryRecordStamped ==
    \A coll \in {cultural_documents, folk_songs, stories, user_progress} :
        \A i \in DOMAIN coll :
            {"id", "created_at", "updated_at"} \subseteq DOMAIN coll[i]

\* C17: in every interleaving of progress fetches and badge awards the
\* points stored for a user are the most the store ever held for the user
\* (they never decreased), no badge the stored record ever showed is missing
\* from it, and every GET /user/{u}/progress that succeeded returned no fewer
\* points than the store had held when it started and no more than the store
\* had held when it completed; so a fetch that starts after another has
\* completed never returns fewer points than that one.
C17_PointsNeverDecrease ==
    /\ \A u \in Users :
        /\ StoredPoints(u) = observed[u].stored
        /\ observed[u].badges \subseteq Range(StoredBadges(u))
        /\ ~observed[u].fell

\* A fetch returned 10 points and a later one, after a further award,
\* returned 20.
C17_FetchAfterFetchReached ==
    \E p, q \in Tasks : \E u \in Users :
        /\ p # q
        /\ Succeeded(p, "get_user_progress")
        /\ Succeeded(q, "get_user_progress")
        /\ task[p].resp.body.points = 10
        /\ task[q].resp.body.points = 20
        /\ observed[u].stored = 20
        /\ StoredPoints(u) = 20

\* Whether chars holds the query as a substring, letter case aside.
Contains(chars, query) ==
    \E i \in 1..(Len(chars) + 1) :
        /\ i + Len(query) - 1 <= Len(chars)
        /\ \A j \in 1..Len(query) : lower(chars[i + j - 1]) = lower(query[j])

HoldsLiterally(doc, query) ==
    \/ Contains(Chars(doc.title), query)
    \/ doc.original_text # None /\ Contains(Chars(doc.original_text[1]), query)
    \/ doc.description # None /\ Contains(Chars(doc.description[1]), query)

\* The searches that succeeded with a given search_type.
Searched(p, search_type) ==
    /\ Succeeded(p, "search_content")
    /\ task[p].arg.search_type = search_type

\* C15: every result of a keyword search that succeeded is a stored document
\* whose title, original_text or description holds the query as a literal
\* substring, letter case aside, and the results are at most limit.
C15_KeywordResultsHoldTheQuery ==
    \A p \in Tasks :
        Searched(p, "keyword") =>
            /\ \A i \in DOMAIN task[p].resp.body.results :
                \E j \in DOMAIN cultural_documents :
                    /\ cultural_documents[j].id = task[p].resp.body.results[i].id
                    /\ HoldsLiterally(cultural_documents[j], task[p].arg.query)
            /\ Len(task[p].resp.body.results) <= task[p].arg.limit

\* C16: the results of a semantic search that succeeded, and its
\* total_found, are at most limit.
C16_SemanticResultsWithinLimit ==
    \A p \in Tasks :
        Searched(p, "semantic") =>
            /\ Len(task[p].resp.body.results) <= task[p].arg.limit
            /\ task[p].resp.body.total_found <= task[p].arg.limit

\* The ids of the items of one type, in the order of the results.
IdsOfType(results, type) ==
    LET OfType(item) == item.type = type
        items == SelectSeq(results, OfType)
    IN  [i \in DOMAIN items |-> items[i].id]

\* C18: in the results of a semantic search that succeeded every document
\* item has score 0.8 and every folk_song item 0.7, no folk_song item
\* precedes a document item, and the items of each type are those the store
\* returned, in the store's order.
C18_SemanticResultsOrdered ==
    \A p \in Tasks :
        Searched(p, "semantic") =>
            LET results == task[p].resp.body.results IN
            /\ \A i \in DOMAIN results :
                /\ results[i].type \in {"document", "folk_song"}
                /\ results[i].type = "document" => results[i].score = 8
                /\ results[i].type = "folk_song" => results[i].score = 7
            /\ \A i, j \in DOMAIN results :
                (results[i].type = "folk_song" /\ results[j].type = "document")
                    => j < i
            /\ IdsOfType(results, "document") =
                  [i \in DOMAIN task[p].loc.documents |->
                      task[p].loc.documents[i].id]
            /\ IdsOfType(results, "folk_song") =
                  [i \in DOMAIN task[p].loc.folk_songs |->
                      task[p].loc.folk_songs[i].id]

\* A semantic search has returned two documents and a folk song.
C18_MixedResultsReached ==
    \E p \in Tasks :
        /\ Searched(p, "semantic")
        /\ Len(IdsOfType(task[p].resp.body.results, "document")) = 2
        /\ Len(IdsOfType(task[p].resp.body.results, "folk_song")) = 1

\* A story request whose insert has just succeeded.
Stored(p) ==
    /\ task[p].op = "generate_story"
    /\ task[p].pc = "insert_one"
    /\ task'[p].pc = "done"
    /\ task'[p].resp.status = 200

\* C19: POST /story/generate requests for one stored document, in flight
\* together, do not wait for one another (a request at an await can always
\* take its next step); each that succeeds has built one session and sent
\* one message, and stores one story more, under an id no stored story has,
\* holding the response its own provider call returned; the stories are
\* added by these requests alone, one each, and their ids stay pairwise
\* distinct.
C19_ConcurrentStoriesIndependent ==
    /\ [](\A p \in Tasks :
             /\ (task[p].op = "generate_story" /\ task[p].pc = "send_message")
                => ENABLED generate_story_reply(p, StoryOutputs)
             /\ (task[p].op = "generate_story" /\ task[p].pc = "insert_one")
                => ENABLED generate_story_insert(p))
    /\ [][/\ Len(stories') =
                Len(stories) + Cardinality({p \in Tasks : Stored(p)})
          /\ SubSeq(stories', 1, Len(stories)) = stories
          /\ Cardinality(IdsOf(stories')) = Len(stories')
          /\ \A p \in Tasks :
                Stored(p) =>
                    LET story == stories'[Len(stories')] IN
                    /\ task[p].llm = [sessions |-> 1, sent |-> 1]
                    /\ task'[p].llm = task[p].llm
                    /\ story.id \notin IdsOf(stories)
                    /\ story.id = task'[p].resp.body.story_id
                    /\ story.content = task[p].loc.response
                    /\ task'[p].resp.body.content = task[p].loc.response
                    /\ story.source_document_id = Some(task[p].arg.document_id)
                    /\ \A q \in Tasks \ {p} : task'[q] = task[q]
      ]_vars

\* Every task has answered a story request for the same document with 200,
\* the responses differ, each story holds the response of the request that
\* returned its id, and the story stored first carries the id drawn last:
\* the requests overlapped.
C19_OverlappingStoriesReached ==
    /\ \A p \in Tasks : Succeeded(p, "generate_story")
    /\ \A p, q \in Tasks :
          /\ task[p].arg.document_id = task[q].arg.document_id
          /\ p # q => /\ task[p].loc.response # task[q].loc.response
                      /\ task[p].resp.body.story_id # task[q].resp.body.story_id
    /\ Len(stories) = NumTasks
    /\ \A p \in Tasks :
          \E i \in DOMAIN stories :
              /\ stories[i].id = task[p].resp.body.story_id
              /\ stories[i].content = task[p].loc.response
    /\ stories[1].id > stories[Len(stories)].id

\* C20: a search whose search_type is neither semantic nor keyword is
\* answered with a validation error (a 4xx status).
C20_UnknownSearchTypeRejected ==
    \A p \in Tasks :
        (/\ Done(p, "search_content")
         /\ task[p].arg.search_type \notin {"semantic", "keyword"})
        => task[p].resp.status \in 400..499

\* The stories whose source_document_id names a stored document.
Sourced(coll, documents) ==
    {i \in DOMAIN coll :
        coll[i].source_document_id \in {Some(d) : d \in IdsOf(documents)}}

\* C21: every stored story names in source_document_id a document that
\* cultural_documents holds; the stories collection changes only when a
\* story request returns 200, and then by one record appended, whose id is
\* the story_id returned, whose content is the provider's response (the
\* content returned too) and whose source is the document requested.
C21_StoriesKeepTheirSource ==
    /\ [](Sourced(stories, cultural_documents) = DOMAIN stories)
    /\ [][/\ stories' # stories => \E p \in Tasks : Stored(p)
          /\ \A p \in Tasks :
                Stored(p) =>
                    /\ Len(stories') = Len(stories) + 1
                    /\ SubSeq(stories', 1, Len(stories)) = stories
                    /\ stories'[Len(stories')].id =
                          task'[p].resp.body.story_id
                    /\ stories'[Len(stories')].content = task[p].loc.response
                    /\ stories'[Len(stories')].source_document_id =
                          Some(task[p].arg.document_id)
                    /\ task'[p].resp.body.content = task[p].loc.response
                    /\ task[p].loc.doc[1].id = task[p].arg.document_id
                    /\ task[p].loc.doc[1] \in Range(cultural_documents')
      ]_vars

\* A story of the second of two stored documents has been generated and
\* stored: the request returned 200 with the story's id and content.
C21_StoryOfSecondDocumentReached ==
    /\ Succeeded(1, "generate_story")
    /\ Len(cultural_documents) = 2
    /\ Len(stories) = 1
    /\ stories[1].source_document_id = Some(cultural_documents[2].id)
    /\ cultural_documents[2].id # cultural_documents[1].id
    /\ stories[1].id = task[1].resp.body.story_id
    /\ stories[1].content = task[1].resp.body.content

====
